---- MODULE Spec2Model ----
(***************************************************************************)
(* Model of html_editor.py: text addressing, extraction and patching of a *)
(* templated HTML document.                                                *)
(*                                                                         *)
(* A text is a sequence of symbols.  A symbol is a literal character, a    *)
(* whitespace character, one of the template delimiters "{{" "}}" "{%"     *)
(* "%}", or a word of a template directive ("if", "elif", "endif", a       *)
(* status name standing for the test  status == "<name>").                 *)
(*                                                                         *)
(* A document is the parsed tree in document order: a sequence of element  *)
(* records [name, cls, parent, text]; parent is the index of the parent    *)
(* element (0 for the root) and text the single text run of a leaf (<<>>   *)
(* when the element has no text).                                          *)
(***************************************************************************)
EXTENDS Integers, Sequences, FiniteSets, TLC

\* ------------------------------------------------------------------------
\* Bounds of the model
\* ------------------------------------------------------------------------
MaxNodes == 3
MaxLen == 4
MaxBranches == 2

\* ------------------------------------------------------------------------
\* Common utilities (norm, has_jinja, strip_jinja)
\* ------------------------------------------------------------------------
WS_RE == {" ", "\n"}

SubStr(s, i, j) == IF j < i THEN <<>> ELSE SubSeq(s, i, j)

\* first index j >= i with s[j] = c, or 0
RECURSIVE FindSym(_, _, _)
FindSym(s, c, i) ==
    IF i > Len(s) THEN 0
    ELSE IF s[i] = c THEN i
    ELSE FindSym(s, c, i + 1)

\* JINJA_RE matched at position i: the index of the last symbol of the match
\* ({{.*?}} tried first, then {%.+?%}), or 0 when there is no match at i
JinjaEnd(s, i) ==
    IF i > Len(s) THEN 0
    ELSE IF s[i] = "{{" THEN FindSym(s, "}}", i + 1)
    ELSE IF s[i] = "{%" THEN FindSym(s, "%}", i + 2)
    ELSE 0

RECURSIVE JinjaSearch(_, _)
JinjaSearch(s, i) ==
    IF i > Len(s) THEN 0
    ELSE IF JinjaEnd(s, i) # 0 THEN i
    ELSE JinjaSearch(s, i + 1)

has_jinja(s) == JinjaSearch(s, 1) # 0

\* JINJA_RE.sub("", s) from position i on
RECURSIVE JinjaSub(_, _)
JinjaSub(s, i) ==
    IF i > Len(s) THEN <<>>
    ELSE IF JinjaEnd(s, i) # 0 THEN JinjaSub(s, JinjaEnd(s, i) + 1)
    ELSE <<s[i]>> \o JinjaSub(s, i + 1)

\* WS_RE.sub(" ", s): every maximal run of whitespace becomes one space
RECURSIVE WsCollapse(_, _)
WsCollapse(s, i) ==
    IF i > Len(s) THEN <<>>
    ELSE IF s[i] \in WS_RE
         THEN IF i > 1 /\ s[i - 1] \in WS_RE
              THEN WsCollapse(s, i + 1)
              ELSE <<" ">> \o WsCollapse(s, i + 1)
    ELSE <<s[i]>> \o WsCollapse(s, i + 1)

RECURSIVE LStrip(_)
LStrip(s) ==
    IF s = <<>> THEN <<>>
    ELSE IF Head(s) \in WS_RE THEN LStrip(Tail(s))
    ELSE s

RECURSIVE RStrip(_)
RStrip(s) ==
    IF s = <<>> THEN <<>>
    ELSE IF s[Len(s)] \in WS_RE THEN RStrip(SubStr(s, 1, Len(s) - 1))
    ELSE s

Strip(s) == RStrip(LStrip(s))

norm(s) == Strip(WsCollapse(s, 1))

strip_jinja(s) == norm(JinjaSub(s, 1))

\* str.find: first index at which sub occurs in s from i on, or 0
RECURSIVE StrFind(_, _, _)
StrFind(s, sub, i) ==
    IF i + Len(sub) - 1 > Len(s) THEN 0
    ELSE IF SubStr(s, i, i + Len(sub) - 1) = sub THEN i
    ELSE StrFind(s, sub, i + 1)

\* s.replace(old, "", 1)
StrRemoveFirst(s, old) ==
    LET i == StrFind(s, old, 1)
    IN IF i = 0 THEN s
       ELSE SubStr(s, 1, i - 1) \o SubStr(s, i + Len(old), Len(s))

\* ------------------------------------------------------------------------
\* Documents
\* ------------------------------------------------------------------------
SKIP_TAGS == {"style", "script", "svg", "head"}
CANDIDATE_TAGS == {"h1", "h2", "h3", "p", "span", "div"}
STATUSES == <<"Platinum", "Gold", "Silver", "Bronze">>

Range(f) == {f[i] : i \in DOMAIN f}

\* " ".join(tag.get("class", []))
RECURSIVE JoinClass(_)
JoinClass(cls) ==
    IF cls = <<>> THEN ""
    ELSE IF Len(cls) = 1 THEN cls[1]
    ELSE cls[1] \o " " \o JoinClass(Tail(cls))

\* any(isinstance(ch, Tag) for ch in tag.contents)
HasTagChild(doc, i) == \E j \in DOMAIN doc : doc[j].parent = i

\* element i is a SKIP_TAGS element or lies below one: bad.decompose() removes it
RECURSIVE Decomposed(_, _)
Decomposed(doc, i) ==
    IF i = 0 THEN FALSE
    ELSE doc[i].name \in SKIP_TAGS \/ Decomposed(doc, doc[i].parent)

\* the ascending sequence of the members of a set of indices
RECURSIVE Ascending(_)
Ascending(S) ==
    IF S = {} THEN <<>>
    ELSE LET m == CHOOSE x \in S : \A y \in S : x <= y
         IN <<m>> \o Ascending(S \ {m})

\* the leaf test shared by both traversals: no element child, a text run, and
\* non-empty text after norm
IsTextLeaf(doc, i) ==
    /\ doc[i].name \in CANDIDATE_TAGS
    /\ ~HasTagChild(doc, i)
    /\ doc[i].text # <<>>
    /\ norm(doc[i].text) # <<>>

\* (variant: the marker strip of lines 145-149 left out)
ExtractedTextNoStrip(raw) == norm(raw)

\* text kept by extract_text_nodes for a leaf: <<>> when the node is skipped
ExtractedText(raw) ==
    LET text == norm(raw)
    IN IF has_jinja(text) THEN strip_jinja(text) ELSE text

\* the elements extract_text_nodes appends to candidates, in document order
Candidates(doc) ==
    Ascending({i \in DOMAIN doc :
        /\ ~Decomposed(doc, i)
        /\ IsTextLeaf(doc, i)
        /\ ExtractedText(doc[i].text) # <<>>})

FormatTextKey(tag_name, class_str, occ) == <<"TEXT", tag_name, class_str, occ>>
FormatStatusKey(st) == <<"STATUS", st>>

\* (variant: one counter for all pairs instead of one per pair)
NumberNodesGlobal(doc, cands, p, counters) ==
    [n \in DOMAIN cands |->
        LET i == cands[n]
            text == ExtractedText(doc[i].text)
        IN [key |-> FormatTextKey(doc[i].name, JoinClass(doc[i].cls), n),
            display |-> text,
            kind |-> "text",
            tag_name |-> doc[i].name,
            class_str |-> JoinClass(doc[i].cls),
            occurrence |-> n,
            original_text |-> text]]

\* the counters fold of extract_text_nodes: candidate p gets the next
\* occurrence index of its (tag, class) pair
RECURSIVE NumberNodes(_, _, _, _)
NumberNodes(doc, cands, p, counters) ==
    IF p > Len(cands) THEN <<>>
    ELSE LET i == cands[p]
             key2 == <<doc[i].name, JoinClass(doc[i].cls)>>
             occ == (IF key2 \in DOMAIN counters THEN counters[key2] ELSE 0) + 1
             text == ExtractedText(doc[i].text)
             ref == [key |-> FormatTextKey(key2[1], key2[2], occ),
                     display |-> text,
                     kind |-> "text",
                     tag_name |-> key2[1],
                     class_str |-> key2[2],
                     occurrence |-> occ,
                     original_text |-> text]
         IN <<ref>> \o NumberNodes(doc, cands, p + 1,
                [k \in DOMAIN counters \cup {key2} |->
                    IF k = key2 THEN occ ELSE counters[k]])

\* ------------------------------------------------------------------------
\* The status container and its if/elif/endif chain
\* ------------------------------------------------------------------------

\* soup.find("p", class_="status"): the first <p> with class token "status",
\* 0 when there is none
FindStatusP(doc) ==
    LET S == {i \in DOMAIN doc : doc[i].name = "p" /\ "status" \in Range(doc[i].cls)}
    IN IF S = {} THEN 0 ELSE CHOOSE i \in S : \A j \in S : i <= j

\* p.decode_contents()
decode_contents(doc, p) == doc[p].text

\* \s* from position i: the first index >= i that is not whitespace
RECURSIVE SkipWs(_, _)
SkipWs(s, i) ==
    IF i > Len(s) THEN i
    ELSE IF s[i] \in WS_RE THEN SkipWs(s, i + 1)
    ELSE i

At(s, i) == IF i \in 1..Len(s) THEN s[i] ELSE "<eos>"

\* {%\s*(if|elif)\s+status\s*==\s*"<status>"\s*%}\s*  matched at i: the index
\* of the first symbol after the match (start of the branch body), or 0
PrefixEnd(s, i, status) ==
    LET kw == SkipWs(s, i + 1)
        nm == SkipWs(s, kw + 1)
        cl == SkipWs(s, nm + 1)
    IN IF /\ At(s, i) = "{%"
          /\ At(s, kw) \in {"if", "elif"}
          /\ nm > kw + 1
          /\ At(s, nm) = status
          /\ At(s, cl) = "%}"
       THEN SkipWs(s, cl + 1)
       ELSE 0

\* (variant: the lookahead stops at endif only)
BranchEndAtOnlyEndif(s, e) ==
    /\ At(s, e) = "{%"
    /\ At(s, SkipWs(s, e + 1)) = "endif"

\* the lookahead (?={%\s*(elif|endif)\b) at position e
BranchEndAt(s, e) ==
    /\ At(s, e) = "{%"
    /\ At(s, SkipWs(s, e + 1)) \in {"elif", "endif"}

\* [\s\S]*? up to the lookahead: the first e >= b where the lookahead holds,
\* or 0
RECURSIVE BodyEnd(_, _)
BodyEnd(s, b) ==
    IF b > Len(s) THEN 0
    ELSE IF BranchEndAt(s, b) THEN b
    ELSE BodyEnd(s, b + 1)

\* pattern.search(inner): the leftmost match from i on, as
\* [start, body, stop] (body = s[body..stop-1]); start = 0 when no match
RECURSIVE BranchSearch(_, _, _)
BranchSearch(s, i, status) ==
    IF i > Len(s) THEN [start |-> 0, body |-> 0, stop |-> 0]
    ELSE LET b == PrefixEnd(s, i, status)
             e == IF b = 0 THEN 0 ELSE BodyEnd(s, b)
         IN IF b # 0 /\ e # 0
            THEN [start |-> i, body |-> b, stop |-> e]
            ELSE BranchSearch(s, i + 1, status)

\* body of the branch as text: norm(block_soup.get_text(" ", strip=True))
BranchText(s, status) ==
    LET m == BranchSearch(s, 1, status)
    IN IF m.start = 0 THEN <<>> ELSE norm(SubStr(s, m.body, m.stop - 1))

\* position of a status in the vocabulary
StatusIndex(st) == CHOOSE n \in DOMAIN STATUSES : STATUSES[n] = st

\* _extract_status_texts_from_p_status: status -> text, for the statuses
\* whose branch is found with non-empty text
_extract_status_texts_from_p_status(doc) ==
    LET p == FindStatusP(doc)
    IN IF p = 0 THEN <<>>
       ELSE LET inner == decode_contents(doc, p)
                texts == [n \in DOMAIN STATUSES |-> BranchText(inner, STATUSES[n])]
            IN [st \in {STATUSES[n] : n \in {m \in DOMAIN STATUSES : texts[m] # <<>>}}
                    |-> texts[StatusIndex(st)]]

\* status_nodes of extract_text_nodes: one entry per status of STATUSES, in
\* that order, that is in status_texts
StatusNodes(status_texts) ==
    LET found == SelectSeq(STATUSES, LAMBDA st : st \in DOMAIN status_texts)
    IN [n \in DOMAIN found |->
          [key |-> FormatStatusKey(found[n]),
           display |-> status_texts[found[n]],
           kind |-> "status",
           tag_name |-> "p",
           class_str |-> "status",
           occurrence |-> 1,
           original_text |-> status_texts[found[n]]]]

extract_text_nodes(doc) ==
    LET status_texts == _extract_status_texts_from_p_status(doc)
    IN NumberNodes(doc, Candidates(doc), 1, <<>>) \o StatusNodes(status_texts)

\* ------------------------------------------------------------------------
\* Patching
\* ------------------------------------------------------------------------
PadSpaces == 16
Pad == <<"\n">> \o [i \in 1..PadSpaces |-> " "]

SetText(doc, i, t) == [doc EXCEPT ![i].text = t]

\* (variant: a greedy body, up to the last elif/endif of the text)
replace_blockGreedy(status, new_text, inner_html) ==
    LET m == BranchSearch(inner_html, 1, status)
        last == CHOOSE e \in m.stop..Len(inner_html) :
                    /\ BranchEndAt(inner_html, e)
                    /\ \A f \in (e + 1)..Len(inner_html) : ~BranchEndAt(inner_html, f)
    IN IF m.start = 0 THEN inner_html
       ELSE SubStr(inner_html, 1, m.body - 1)
                \o Pad \o new_text \o Pad
                \o SubStr(inner_html, last, Len(inner_html))

\* replace_block: pat.sub(_repl, inner_html, count=1)
replace_block(status, new_text, inner_html) ==
    LET m == BranchSearch(inner_html, 1, status)
    IN IF m.start = 0 THEN inner_html
       ELSE SubStr(inner_html, 1, m.body - 1)
                \o Pad \o new_text \o Pad
                \o SubStr(inner_html, m.stop, Len(inner_html))

\* the loop of _apply_status_edits over status_edits.items(), from entry n on
RECURSIVE StatusEditLoop(_, _, _)
StatusEditLoop(inner, status_edits, n) ==
    IF n > Len(status_edits) THEN inner
    ELSE LET status == status_edits[n][1]
             t == norm(status_edits[n][2])
         IN IF t = <<>>
            THEN StatusEditLoop(inner, status_edits, n + 1)
            ELSE StatusEditLoop(replace_block(status, t, inner), status_edits, n + 1)

_apply_status_edits(doc, status_edits) ==
    LET p == FindStatusP(doc)
    IN IF p = 0 THEN doc
       ELSE SetText(doc, p, StatusEditLoop(decode_contents(doc, p), status_edits, 1))

\* index[(tag_name, class_str)] of apply_text_edits: the elements of the
\* group in document order
IndexGroup(doc, tag_name, class_str) ==
    Ascending({i \in DOMAIN doc :
        /\ IsTextLeaf(doc, i)
        /\ doc[i].name = tag_name
        /\ JoinClass(doc[i].cls) = class_str})

\* new text of element t for one text edit (lines 207-216)
PatchedText(old_raw, new_text) ==
    IF has_jinja(old_raw)
    THEN LET old_label == strip_jinja(old_raw)
         IN IF old_label # <<>>
            THEN norm(new_text) \o StrRemoveFirst(old_raw, old_label)
            ELSE old_raw
    ELSE norm(new_text)

\* the element a key resolves to in the index built from doc0, 0 when the
\* edit is dropped.  A key is the tuple of its "|"-separated fields: fewer
\* than four fields fail len(parts) != 4, more than four leave "|" in occ_s
\* (split("|", 3)) so that int(occ_s) raises and the edit is skipped
ResolveText(doc0, k) ==
    IF k[1] # "TEXT" \/ Len(k) # 4 THEN 0
    ELSE LET tags == IndexGroup(doc0, k[2], k[3])
         IN IF 1 <= k[4] /\ k[4] <= Len(tags) THEN tags[k[4]] ELSE 0

\* the first loop of apply_text_edits over edits.items(), from entry n on;
\* doc0 is the parsed input (the index), doc the tree as patched so far
RECURSIVE TextEditLoop(_, _, _, _)
TextEditLoop(doc0, doc, edits, n) ==
    IF n > Len(edits) THEN doc
    ELSE LET t == ResolveText(doc0, edits[n][1])
         IN IF t = 0
            THEN TextEditLoop(doc0, doc, edits, n + 1)
            ELSE TextEditLoop(doc0,
                    SetText(doc, t, PatchedText(doc[t].text, edits[n][2])),
                    edits, n + 1)

\* status_edits of apply_text_edits: (st, norm(new_text)) in dict order
RECURSIVE CollectStatusEdits(_, _)
CollectStatusEdits(edits, n) ==
    IF n > Len(edits) THEN <<>>
    ELSE (IF edits[n][1][1] = "STATUS"
          THEN <<<<edits[n][1][2], norm(edits[n][2])>>>>
          ELSE <<>>) \o CollectStatusEdits(edits, n + 1)

\* (variant: every indexed element is rewritten, with "" when it has no edit)
apply_text_editsDefaultEmpty(doc, edits) ==
    LET edited == {ResolveText(doc, edits[n][1]) : n \in DOMAIN edits}
    IN [i \in DOMAIN doc |->
          IF IsTextLeaf(doc, i) /\ i \notin edited
          THEN [doc[i] EXCEPT !.text = <<>>]
          ELSE TextEditLoop(doc, doc, edits, 1)[i]]

apply_text_edits(doc, edits) ==
    LET out_html == TextEditLoop(doc, doc, edits, 1)
        status_edits == CollectStatusEdits(edits, 1)
    IN IF status_edits # <<>>
       THEN _apply_status_edits(out_html, status_edits)
       ELSE out_html

\* ------------------------------------------------------------------------
\* Images: BG_URL_RE, extract_images, replace_image_in_html
\*
\* A style text is a sequence of symbols: the property names
\* "background-image" and "background", other words, ":", ";", "url(", ")",
\* the quotes, whitespace and URL characters.  A URL is a sequence of
\* symbols; a data-URL starts with one of the symbols of DataPrefix.
\* Elements of a document with images carry attrs, a record with the
\* attributes src and style where the element has them.
\* ------------------------------------------------------------------------
Quotes == {"'", "\""}
UrlStop == Quotes \cup {")"}
BgProps == {"background-image", "background"}

\* [^"')]+ from position i, greedy: the index of the last symbol of the run
\* (i - 1 when the run is empty)
RECURSIVE RunEnd(_, _)
RunEnd(s, i) ==
    IF i > Len(s) \/ s[i] \in UrlStop THEN i - 1
    ELSE RunEnd(s, i + 1)

\* ["']?\s*\) after a group that ends at e: the index of ")", or 0
PostOk(s, e) ==
    LET q == IF At(s, e + 1) \in Quotes THEN e + 2 ELSE e + 1
        w == SkipWs(s, q)
    IN IF At(s, w) = ")" THEN w ELSE 0

NoUrl == [from |-> 0, to |-> 0, close |-> 0]

\* url\(\s*["']?([^"')]+)["']?\s*\) matched at j: the group s[from..to] and
\* the index of the closing ")"; close = 0 when there is no match.  \s* and
\* ["']? are greedy; when the group would be empty \s* gives back one
\* whitespace symbol, which then opens the group
UrlAt(s, j) ==
    LET a == SkipWs(s, j + 1)
        a1 == IF At(s, a) \in Quotes THEN a + 1 ELSE a
        eA == RunEnd(s, a1)
        eB == RunEnd(s, a - 1)
    IN IF At(s, j) # "url(" THEN NoUrl
       ELSE IF eA >= a1 /\ PostOk(s, eA) # 0
            THEN [from |-> a1, to |-> eA, close |-> PostOk(s, eA)]
       ELSE IF a > j + 1 /\ PostOk(s, eB) # 0
            THEN [from |-> a - 1, to |-> eB, close |-> PostOk(s, eB)]
       ELSE NoUrl

\* BG_URL_RE matched at i: the property name, \s*:\s*, then [^;]* greedy up
\* to the last url( before the next ";" from which the rest matches
BgMatchAt(s, i) ==
    LET c == SkipWs(s, i + 1)
        semi == FindSym(s, ";", c + 1)
        lim == IF semi = 0 THEN Len(s) ELSE semi - 1
        J == {j \in (c + 1)..lim : UrlAt(s, j).close # 0}
    IN IF At(s, i) \in BgProps /\ At(s, c) = ":" /\ J # {}
       THEN UrlAt(s, CHOOSE j \in J : \A k \in J : k <= j)
       ELSE NoUrl

\* BG_URL_RE.findall(s) from position i on, as the spans of the groups
RECURSIVE BgFindAll(_, _)
BgFindAll(s, i) ==
    IF i > Len(s) THEN <<>>
    ELSE LET m == BgMatchAt(s, i)
         IN IF m.close # 0
            THEN <<m>> \o BgFindAll(s, m.close + 1)
            ELSE BgFindAll(s, i + 1)

\* the matched groups as texts
BgUrls(s) ==
    LET ms == BgFindAll(s, 1)
    IN [n \in DOMAIN ms |-> SubStr(s, ms[n].from, ms[n].to)]

\* DATA_URL_RE.match(u): data:(image/(png|jpeg|jpg));base64,(.+)
DataMimes == {"data:image/png", "data:image/jpeg", "data:image/jpg"}
IsDataUrl(u) ==
    /\ Len(u) >= 4
    /\ u[1] \in DataMimes /\ u[2] = ";" /\ u[3] = "base64,"

\* f"IMG{counter:03d}": the digits of counter, zero-padded to three
RECURSIVE Digits(_)
Digits(n) == IF n < 10 THEN <<n>> ELSE Append(Digits(n \div 10), n % 10)

ZeroPad3(ds) ==
    IF Len(ds) >= 3 THEN ds ELSE [i \in 1..(3 - Len(ds)) |-> 0] \o ds

ImgId(counter) == <<"IMG">> \o ZeroPad3(Digits(counter))

ImageLocator(kind, a, b) == [kind |-> kind, a |-> a, b |-> b]

\* the ImageEntry extract_images appends for the stripped source u
ImageEntry(counter, source, u, locator) ==
    [img_id |-> ImgId(counter),
     source |-> source,
     mime |-> IF IsDataUrl(u) THEN u[1] ELSE "image/unknown",
     fmt |-> IF ~IsDataUrl(u) THEN "?"
             ELSE IF u[1] = "data:image/png" THEN "png" ELSE "jpg",
     hint |-> IF IsDataUrl(u) THEN <<"(data-url)">> ELSE u,
     locator |-> locator]

\* value of an attribute kept as <<>> (absent) or <<value>>: tag.get(a) or ""
AttrOr(attr) == IF attr = <<>> THEN <<>> ELSE attr[1]

\* soup.find_all("img"), soup.find_all(style=True), soup.find_all("style")
Imgs(doc) == Ascending({i \in DOMAIN doc : doc[i].name = "img"})
\* (variant: only the elements whose style has a background url are ranked)
StyledWithUrl(doc) ==
    Ascending({i \in DOMAIN doc :
        doc[i].style # <<>> /\ BgUrls(AttrOr(doc[i].style)) # <<>>})

Styled(doc) == Ascending({i \in DOMAIN doc : doc[i].style # <<>>})
StyleBlocks(doc) == Ascending({i \in DOMAIN doc : doc[i].name = "style"})

\* the style text a background locator kind reads from an element
StyleText(doc, kind, i) ==
    IF kind = "inline_style" THEN AttrOr(doc[i].style) ELSE doc[i].text

\* (variant: the counter also counts the <img> elements that are skipped)
RECURSIVE ImgPassCountSkipped(_, _, _, _)
ImgPassCountSkipped(doc, imgs, n, st) ==
    IF n > Len(imgs) THEN st
    ELSE LET src == Strip(AttrOr(doc[imgs[n]].src))
         IN IF src = <<>>
            THEN ImgPassCountSkipped(doc, imgs, n + 1,
                    [out |-> st.out, counter |-> st.counter + 1])
            ELSE ImgPassCountSkipped(doc, imgs, n + 1,
                    [out |-> Append(st.out,
                                ImageEntry(st.counter + 1, "img-tag", src,
                                           ImageLocator("img", n - 1, 0))),
                     counter |-> st.counter + 1])

\* pass 1 of extract_images from img number n on; st = [out, counter]
RECURSIVE ImgPass(_, _, _, _)
ImgPass(doc, imgs, n, st) ==
    IF n > Len(imgs) THEN st
    ELSE LET src == Strip(AttrOr(doc[imgs[n]].src))
         IN IF src = <<>>
            THEN ImgPass(doc, imgs, n + 1, st)
            ELSE ImgPass(doc, imgs, n + 1,
                    [out |-> Append(st.out,
                                ImageEntry(st.counter + 1, "img-tag", src,
                                           ImageLocator("img", n - 1, 0))),
                     counter |-> st.counter + 1])

\* the loop over the url matches of one style text, from match m on
RECURSIVE UrlPass(_, _, _, _, _)
UrlPass(urls, m, kind, tag_idx, st) ==
    IF m > Len(urls) THEN st
    ELSE LET u == Strip(urls[m])
         IN IF u = <<>>
            THEN UrlPass(urls, m + 1, kind, tag_idx, st)
            ELSE UrlPass(urls, m + 1, kind, tag_idx,
                    [out |-> Append(st.out,
                                ImageEntry(st.counter + 1, "background-image", u,
                                           ImageLocator(kind, tag_idx, m - 1))),
                     counter |-> st.counter + 1])

\* passes 2 and 3 of extract_images from tag number n on
RECURSIVE TagPass(_, _, _, _, _)
TagPass(doc, kind, tags, n, st) ==
    IF n > Len(tags) THEN st
    ELSE TagPass(doc, kind, tags, n + 1,
            UrlPass(BgUrls(StyleText(doc, kind, tags[n])), 1, kind, n - 1, st))

extract_images(doc) ==
    LET p1 == ImgPass(doc, Imgs(doc), 1, [out |-> <<>>, counter |-> 0])
        p2 == TagPass(doc, "inline_style", Styled(doc), 1, p1)
        p3 == TagPass(doc, "style_tag", StyleBlocks(doc), 1, p2)
    IN p3.out

\* s.replace(old, new, 1)
StrReplaceFirst(s, old, new) ==
    LET i == StrFind(s, old, 1)
    IN IF i = 0 THEN s
       ELSE SubStr(s, 1, i - 1) \o new \o SubStr(s, i + Len(old), Len(s))

\* outcome of replace_image_in_html: the document returned, or ValueError
Returned(doc) == [raised |-> FALSE, html |-> doc]
ValueError == [raised |-> TRUE, html |-> <<>>]

\* the inline_style and style_tag branches of replace_image_in_html
ReplaceBackground(doc, tags, locator, new_data_url) ==
    IF locator.a < 0 \/ locator.a >= Len(tags) THEN ValueError
    ELSE LET i == tags[locator.a + 1]
             style == StyleText(doc, locator.kind, i)
             urls == BgUrls(style)
         IN IF locator.b < 0 \/ locator.b >= Len(urls) THEN ValueError
            ELSE LET new_style == StrReplaceFirst(style, urls[locator.b + 1], new_data_url)
                 IN Returned(IF locator.kind = "inline_style"
                             THEN [doc EXCEPT ![i].style = <<new_style>>]
                             ELSE [doc EXCEPT ![i].text = new_style])

\* (variant: no check of a negative img index, which then counts from the
\* end of the list)
replace_image_in_htmlNoLowerCheck(doc, locator, new_data_url) ==
    IF locator.kind = "img"
    THEN LET imgs == Imgs(doc)
         IN IF locator.a >= Len(imgs) \/ locator.a < 0 - Len(imgs) THEN ValueError
            ELSE IF locator.a < 0
            THEN Returned([doc EXCEPT ![imgs[Len(imgs) + locator.a + 1]].src =
                                            <<new_data_url>>])
            ELSE Returned([doc EXCEPT ![imgs[locator.a + 1]].src = <<new_data_url>>])
    ELSE IF locator.kind = "inline_style"
    THEN ReplaceBackground(doc, Styled(doc), locator, new_data_url)
    ELSE IF locator.kind = "style_tag"
    THEN ReplaceBackground(doc, StyleBlocks(doc), locator, new_data_url)
    ELSE ValueError

replace_image_in_html(doc, locator, new_data_url) ==
    IF locator.kind = "img"
    THEN LET imgs == Imgs(doc)
         IN IF locator.a < 0 \/ locator.a >= Len(imgs) THEN ValueError
            ELSE Returned([doc EXCEPT ![imgs[locator.a + 1]].src = <<new_data_url>>])
    ELSE IF locator.kind = "inline_style"
    THEN ReplaceBackground(doc, Styled(doc), locator, new_data_url)
    ELSE IF locator.kind = "style_tag"
    THEN ReplaceBackground(doc, StyleBlocks(doc), locator, new_data_url)
    ELSE ValueError

\* ------------------------------------------------------------------------
\* Input documents
\* ------------------------------------------------------------------------
Node(name, cls, parent, text) ==
    [name |-> name, cls |-> cls, parent |-> parent, text |-> text]

\* ancestors of element j (j included) in a document prefix
RECURSIVE AncestorsOrSelf(_, _)
AncestorsOrSelf(doc, j) ==
    IF j = 0 THEN {0} ELSE {j} \cup AncestorsOrSelf(doc, doc[j].parent)

\* element shapes of the general documents: <p class="x"> with no text, plain
\* text, a lone marker, a marker between literal text; <p class="y">; <svg>;
\* the status container with a Gold and a Silver branch
NodeKinds ==
    {<<"p", <<"x">>, <<>>>>,
     <<"p", <<"x">>, <<"a">>>>,
     <<"p", <<"x">>, <<"{{", "b", "}}">>>>,
     <<"p", <<"x">>, <<"a", "{{", "b", "}}", "c">>>>,
     <<"p", <<"y">>, <<"a">>>>,
     <<"svg", <<>>, <<>>>>,
     <<"p", <<"status">>,
        <<"{%", " ", "if", " ", "Gold", " ", "%}", " ", "a", " ",
          "{%", " ", "elif", " ", "Silver", " ", "%}", " ", "c", " ",
          "{%", " ", "endif", " ", "%}">>>>}

\* documents of exactly n elements in document order; an element with
\* element children carries no text of its own, and there is at most one
\* status container
RECURSIVE DocsOfLen(_)
DocsOfLen(n) ==
    IF n = 0 THEN {<<>>}
    ELSE {Append(d, Node(k[1], k[2], par, k[3])) :
            d \in DocsOfLen(n - 1),
            k \in NodeKinds,
            par \in 0..(n - 1)} 

ValidTree(doc) ==
    /\ \A i \in DOMAIN doc :
          /\ doc[i].parent \in AncestorsOrSelf(doc, i - 1)
          /\ doc[i].parent # 0 => doc[doc[i].parent].text = <<>>
    /\ \A i, j \in DOMAIN doc :
          (doc[i].cls = <<"status">> /\ doc[j].cls = <<"status">>) => i = j

TreeDocs == UNION {{d \in DocsOfLen(n) : ValidTree(d)} : n \in 1..MaxNodes}

\* all texts of at most n symbols over a set of symbols
RECURSIVE Strs(_, _)
Strs(Sym, n) ==
    IF n = 0 THEN {<<>>}
    ELSE Strs(Sym, n - 1) \cup
         {Append(s, c) : s \in {t \in Strs(Sym, n - 1) : Len(t) = n - 1}, c \in Sym}

LeafSyms == {"a", " ", "{{", "}}", "{%", "%}"}

\* one <p class="x"> leaf with any text of at most MaxLen symbols
LeafDocs == {<<Node("p", <<"x">>, 0, s)>> : s \in Strs(LeafSyms, MaxLen)}

\* a flat if/elif/endif chain on status: branch n opens with if (n = 1) or
\* elif and holds its body; the chain closes with endif
Directive(kw, st) == <<"{%", " ", kw, " ", st, " ", "%}">>
EndIf == <<"{%", " ", "endif", " ", "%}">>

RECURSIVE RenderChain(_, _)
RenderChain(chain, n) ==
    IF n > Len(chain) THEN EndIf
    ELSE Directive(IF n = 1 THEN "if" ELSE "elif", chain[n].name)
            \o chain[n].body \o RenderChain(chain, n + 1)

Bodies == {<<" ">>, <<" ", "a", " ">>, <<"\n", "a", " ", "{{", "b", "}}", " ">>}

RECURSIVE ChainsOfLen(_)
ChainsOfLen(n) ==
    IF n = 0 THEN {<<>>}
    ELSE {Append(c, [name |-> st, body |-> b]) :
            c \in ChainsOfLen(n - 1), st \in Range(STATUSES), b \in Bodies}

\* chains of 1..MaxBranches branches, each status at most once
Chains ==
    {c \in UNION {ChainsOfLen(n) : n \in 1..MaxBranches} :
        \A i, j \in DOMAIN c : i # j => c[i].name # c[j].name}

\* where the chain sits: in the status container or in a <p> of another
\* class, alone or after a plain <p class="x">
StatusLayouts == {<<cls, lead>> : cls \in {<<"status">>, <<"x">>}, lead \in BOOLEAN}

StatusDoc(chain, layout) ==
    (IF layout[2] THEN <<Node("p", <<"x">>, 0, <<"a">>)>> ELSE <<>>)
        \o <<Node("p", layout[1], 0, RenderChain(chain, 1))>>

\* replacement texts offered by the caller
Values ==
    {<<>>,
     <<"c">>,
     <<"\n", "c", " ", " ", "d", " ">>,
     <<"c", " ", "{{", "d", "}}">>}

\* ------------------------------------------------------------------------
\* The extract -> edit -> patch -> re-extract pipeline
\* ------------------------------------------------------------------------
VARIABLES
    html,       \* the document snapshot of the current cycle
    chain,      \* the chain the status container of the input was written from
    nodes,      \* extract_text_nodes(html)
    edits,      \* the edit set: <<key, text>> pairs in dict order
    out_html,   \* apply_text_edits(html, edits)
    out_nodes,  \* extract_text_nodes(out_html)
    calls,      \* number of apply_text_edits calls made
    pc,
    \* the extract_images -> replace_image_in_html pipeline
    images,         \* extract_images(html); self.images in the editor
    locator,        \* the locator given to replace_image_in_html
    new_data_url,   \* the URL given to replace_image_in_html
    replaced,       \* outcome of replace_image_in_html
    out_images,     \* extract_images of the document returned
    \* HTMLEditorApp (nodes, edits and images above are self.nodes,
    \* self.edits and self.images)
    html_path,      \* name of the open file, "" for None
    original_html,
    files,          \* the files on disk: name -> document
    selected_key,   \* <<>> for None
    text,           \* content of the text widget
    _selected_image_index,  \* -1 for None
    msg             \* the last message box shown: <<>> or <<kind, title>>

textVars == <<html, chain, nodes, edits, out_html, out_nodes, calls, pc>>
imgVars == <<images, locator, new_data_url, replaced, out_images>>
appVars == <<html_path, original_html, files, selected_key, text,
             _selected_image_index, msg>>

vars == <<textVars, imgVars, appVars>>

\* no image pipeline run yet
NoImages ==
    /\ images = <<>>
    /\ locator = ImageLocator("img", 0, 0)
    /\ new_data_url = <<>>
    /\ replaced = Returned(<<>>)
    /\ out_images = <<>>

\* HTMLEditorApp.__init__ with no file on disk
NoApp ==
    /\ html_path = ""
    /\ original_html = <<>>
    /\ files = <<>>
    /\ selected_key = <<>>
    /\ text = <<>>
    /\ _selected_image_index = -1
    /\ msg = <<>>

Keys(ns) == {ns[i].key : i \in DOMAIN ns}

\* edit sets keyed by extracted addresses: empty, or one edit
EditSets(ns) == {<<>>} \cup {<<<<k, v>>>> : k \in Keys(ns), v \in Values}

InitWith(d, c) ==
    /\ html = d
    /\ chain = c
    /\ nodes = <<>>
    /\ edits = <<>>
    /\ out_html = d
    /\ out_nodes = <<>>
    /\ calls = 0
    /\ pc = "start"
    /\ NoImages
    /\ NoApp

Init == \E d \in TreeDocs : InitWith(d, <<>>)

InitLeaf == \E d \in LeafDocs : InitWith(d, <<>>)

InitStatus == \E c \in Chains, l \in StatusLayouts : InitWith(StatusDoc(c, l), c)

\* the caller scans the snapshot
Extract ==
    /\ pc = "start"
    /\ nodes' = extract_text_nodes(html)
    /\ pc' = "extracted"
    /\ UNCHANGED <<html, chain, edits, out_html, out_nodes, calls>>
    /\ UNCHANGED <<imgVars, appVars>>

\* the caller patches the snapshot with an edit set and scans the result
Patch(E) ==
    /\ pc = "extracted"
    /\ edits' = E
    /\ out_html' = apply_text_edits(html, E)
    /\ out_nodes' = extract_text_nodes(out_html')
    /\ calls' = 1
    /\ pc' = "patched"
    /\ UNCHANGED <<html, chain, nodes>>
    /\ UNCHANGED <<imgVars, appVars>>

\* the result becomes the next snapshot and the same edit set is applied to
\* it a second time
Repatch ==
    /\ pc = "patched"
    /\ calls = 1
    /\ html' = out_html
    /\ nodes' = out_nodes
    /\ out_html' = apply_text_edits(out_html, edits)
    /\ out_nodes' = extract_text_nodes(out_html')
    /\ calls' = 2
    /\ UNCHANGED <<chain, edits, pc>>
    /\ UNCHANGED <<imgVars, appVars>>

Next ==
    \/ Extract
    \/ \E E \in EditSets(nodes) : Patch(E)
    \/ Repatch

Spec == Init /\ [][Next]_vars

SpecLeaf == InitLeaf /\ [][Next]_vars

SpecStatus == InitStatus /\ [][Next]_vars

\* ------------------------------------------------------------------------
\* The extract_images -> replace_image_in_html pipeline
\* ------------------------------------------------------------------------
ImgNode(name, src, style, txt) ==
    [name |-> name, cls |-> <<>>, parent |-> 0, text |-> txt,
     src |-> src, style |-> style]

\* declarations: a plain url, a quoted url of the same address in
\* background-image, a url of whitespace only, a url of another address, a
\* declaration that is no background
DeclU == <<"background", ":", "url(", "a", ")">>
DeclQ == <<"background-image", " ", ":", " ", "url(", " ", "'", "a", "'", " ", ")">>
DeclE == <<"background", ":", "url(", " ", ")">>
DeclB == <<"background", ":", "url(", "b", ")">>
DeclN == <<"color", ":", "c">>

\* a data-URL as make_data_url_from_file builds it
PngUrl(payload) == <<"data:image/png", ";", "base64,">> \o payload

\* element shapes of the documents with images: <img> with a blank src, an
\* external src, a data-URL src; elements with a style attribute of one url,
\* of a blank url and a quoted one, of the same address twice, of no url;
\* a <style> block of a blank url and five urls of one address
ImageKinds ==
    {ImgNode("img", <<<<" ">>>>, <<>>, <<>>),
     ImgNode("img", <<<<"a">>>>, <<>>, <<>>),
     ImgNode("img", <<PngUrl(<<"x">>)>>, <<>>, <<>>),
     ImgNode("div", <<>>, <<DeclU>>, <<>>),
     ImgNode("div", <<>>, <<DeclE \o <<";">> \o DeclQ>>, <<>>),
     ImgNode("div", <<>>, <<DeclU \o <<";", " ">> \o DeclQ>>, <<>>),
     ImgNode("div", <<>>, <<DeclN>>, <<>>),
     ImgNode("style", <<>>, <<>>,
        <<"p", "{">> \o DeclE \o <<";">> \o DeclB \o <<";">> \o DeclB
            \o <<";">> \o DeclB \o <<";">> \o DeclB \o <<";">> \o DeclB
            \o <<"}">>)}

RECURSIVE ImageDocsOfLen(_)
ImageDocsOfLen(n) ==
    IF n = 0 THEN {<<>>}
    ELSE {Append(d, k) : d \in ImageDocsOfLen(n - 1), k \in ImageKinds}

ImageDocs == UNION {ImageDocsOfLen(n) : n \in 1..MaxNodes}

LocatorKinds == {"img", "inline_style", "style_tag", "svg_image"}

\* locators offered to replace_image_in_html: those of the extraction, and
\* for every kind the indices below, at and above the ranges of the document
OfferedLocators(doc, imgs) ==
    {imgs[n].locator : n \in DOMAIN imgs}
        \cup {ImageLocator(k, a, b) :
                k \in LocatorKinds,
                a \in {-1, 0, Len(doc)},
                b \in {-1, 0} \cup
                      {Len(BgUrls(StyleText(doc, kd, i))) :
                          kd \in {"inline_style", "style_tag"}, i \in DOMAIN doc}}

InitImages ==
    /\ \E d \in ImageDocs : html = d /\ out_html = d
    /\ chain = <<>> /\ nodes = <<>> /\ edits = <<>> /\ out_nodes = <<>>
    /\ calls = 0
    /\ pc = "start"
    /\ NoImages
    /\ NoApp

\* the caller scans the snapshot for images
ExtractImages ==
    /\ pc = "start"
    /\ images' = extract_images(html)
    /\ pc' = "scanned"
    /\ UNCHANGED <<html, chain, nodes, edits, out_html, out_nodes, calls>>
    /\ UNCHANGED <<locator, new_data_url, replaced, out_images, appVars>>

\* the caller replaces one image of the snapshot and scans the result
ReplaceImage(loc, u) ==
    /\ pc = "scanned"
    /\ locator' = loc
    /\ new_data_url' = u
    /\ replaced' = replace_image_in_html(html, loc, u)
    /\ out_images' = IF replaced'.raised THEN <<>> ELSE extract_images(replaced'.html)
    /\ pc' = "replaced"
    /\ UNCHANGED <<html, chain, nodes, edits, out_html, out_nodes, calls>>
    /\ UNCHANGED <<images, appVars>>

NextImages ==
    \/ ExtractImages
    \/ \E loc \in OfferedLocators(html, images) : ReplaceImage(loc, PngUrl(<<"u">>))

SpecImages == InitImages /\ [][NextImages]_vars

\* ------------------------------------------------------------------------
\* HTMLEditorApp: the editor session
\* ------------------------------------------------------------------------

\* self.edits.get(k, default) and self.edits[k] = v on the dict kept as the
\* sequence of its items in insertion order
DictGet(E, k, default) ==
    IF \E n \in DOMAIN E : E[n][1] = k
    THEN E[CHOOSE n \in DOMAIN E : E[n][1] = k][2]
    ELSE default

DictSet(E, k, v) ==
    IF \E n \in DOMAIN E : E[n][1] = k
    THEN [n \in DOMAIN E |-> IF E[n][1] = k THEN <<k, v>> ELSE E[n]]
    ELSE Append(E, <<k, v>>)

\* norm(self.text.get("1.0", "end").strip()): the widget returns its content
\* and a final newline
WidgetText(t) == norm(Strip(t \o <<"\n">>))

\* _guess_mime_for_file by the suffix of the path
_guess_mime_for_file(path) ==
    IF path.suffix = ".png" THEN "image/png"
    ELSE IF path.suffix \in {".jpg", ".jpeg"} THEN "image/jpeg"
    ELSE ""

\* base64 of the bytes of a file, byte sequence by byte sequence
B64 == [raw \in {<<>>, <<"u">>} |-> IF raw = <<>> THEN <<>> ELSE <<"dQ==">>]

\* make_data_url_from_file: the data-URL, or ValueError
make_data_url_from_file(path) ==
    LET mime == _guess_mime_for_file(path)
    IN IF mime \notin {"image/png", "image/jpeg"}
       THEN [raised |-> TRUE, data_url |-> <<>>]
       ELSE [raised |-> FALSE,
             data_url |-> <<"data:" \o mime, ";", "base64,">> \o B64[path.raw]]

\* rescan_all for the document doc: the node list with its first entry
\* selected and shown in the widget (on_select_text reads the edit set E),
\* and the image list
Rescanned(ns, E, imgs) ==
    /\ nodes' = ns
    /\ selected_key' = IF ns # <<>> THEN ns[1].key ELSE <<>>
    /\ text' = IF ns # <<>>
               THEN DictGet(E, ns[1].key, ns[1].original_text)
               ELSE <<>>
    /\ images' = imgs

rescan_all(doc, E) == Rescanned(extract_text_nodes(doc), E, extract_images(doc))

\* the documents on disk: a paragraph, two paragraphs of one class, a
\* paragraph and an image, an image and a styled element
SNode(name, cls, txt, src, style) ==
    [name |-> name, cls |-> cls, parent |-> 0, text |-> txt,
     src |-> src, style |-> style]

SessionDocs ==
    {<<SNode("p", <<"x">>, <<"a">>, <<>>, <<>>)>>,
     <<SNode("p", <<"x">>, <<"a">>, <<>>, <<>>),
       SNode("p", <<"x">>, <<"b">>, <<>>, <<>>)>>,
     <<SNode("p", <<"x">>, <<"a">>, <<>>, <<>>),
       SNode("img", <<>>, <<>>, <<<<"a">>>>, <<>>)>>,
     <<SNode("img", <<>>, <<>>, <<<<"a">>>>, <<>>),
       SNode("div", <<>>, <<>>, <<>>, <<DeclU>>)>>}

FileNames == {"A", "B"}

\* what the user types into the text widget
TypedTexts == {<<"c">>, <<" ">>}

\* what the image file dialog returns: nothing, a PNG file, a GIF file
ChosenFiles ==
    {[name |-> "", suffix |-> "", raw |-> <<>>],
     [name |-> "new", suffix |-> ".png", raw |-> <<"u">>],
     [name |-> "anim", suffix |-> ".gif", raw |-> <<"u">>]}

InitSession ==
    /\ files \in [FileNames -> SessionDocs]
    /\ html_path = ""
    /\ original_html = <<>>
    /\ selected_key = <<>>
    /\ text = <<>>
    /\ _selected_image_index = -1
    /\ msg = <<>>
    /\ html = <<>> /\ out_html = <<>>
    /\ chain = <<>> /\ nodes = <<>> /\ edits = <<>> /\ out_nodes = <<>>
    /\ calls = 0
    /\ pc = "start"
    /\ NoImages

\* the variables of the two pipelines the editor does not use
patchVars == <<html, out_html, out_nodes, locator, new_data_url, replaced, out_images>>

\* open_file: the file dialog returns path ("" when cancelled)
open_file(path) ==
    IF path = ""
    THEN /\ msg' = <<>>
         /\ UNCHANGED <<textVars, imgVars, html_path, original_html, files,
                        selected_key, text, _selected_image_index>>
    ELSE /\ html_path' = path
         /\ original_html' = files[path]
         /\ rescan_all(original_html', edits)
         /\ _selected_image_index' = -1
         /\ msg' = <<>>
         /\ pc' = "opened"
         /\ UNCHANGED <<files, edits, chain, calls, patchVars>>

\* on_select_text: the user selects row idx of the list
on_select_text(idx) ==
    /\ selected_key' = nodes[idx].key
    /\ text' = DictGet(edits, nodes[idx].key, nodes[idx].original_text)
    /\ msg' = <<>>
    /\ UNCHANGED <<textVars, imgVars, html_path, original_html, files,
                   _selected_image_index>>

\* the user replaces the content of the text widget
TypeText(v) ==
    /\ text' = v
    /\ msg' = <<>>
    /\ pc' = IF pc = "start" THEN pc ELSE "dirty"
    /\ UNCHANGED <<html, chain, nodes, edits, out_html, out_nodes, calls, imgVars,
                   html_path, original_html, files, selected_key,
                   _selected_image_index>>

save_field ==
    IF selected_key = <<>>
    THEN /\ msg' = <<"showwarning", "no_selection">>
         /\ UNCHANGED <<textVars, imgVars, html_path, original_html, files,
                        selected_key, text, _selected_image_index>>
    ELSE IF WidgetText(text) = <<>>
    THEN /\ msg' = <<"showwarning", "empty_text">>
         /\ UNCHANGED <<textVars, imgVars, html_path, original_html, files,
                        selected_key, text, _selected_image_index>>
    ELSE /\ edits' = DictSet(edits, selected_key, WidgetText(text))
         /\ msg' = <<>>
         /\ pc' = "dirty"
         /\ UNCHANGED <<html, chain, nodes, out_html, out_nodes, calls, imgVars,
                        html_path, original_html, files, selected_key, text,
                        _selected_image_index>>

\* the edit set after save_html has saved the field shown (its warnings
\* are not shown)
FieldSaved ==
    IF selected_key # <<>> /\ WidgetText(text) # <<>>
    THEN DictSet(edits, selected_key, WidgetText(text))
    ELSE edits

\* (variant: the new document is written but the lists are not rescanned)
save_htmlNoRescan ==
    IF html_path = ""
    THEN /\ msg' = <<"showwarning", "no_file">>
         /\ UNCHANGED <<textVars, imgVars, html_path, original_html, files,
                        selected_key, text, _selected_image_index>>
    ELSE /\ edits' = FieldSaved
         /\ original_html' = apply_text_edits(original_html, edits')
         /\ files' = [files EXCEPT ![html_path] = original_html']
         /\ msg' = <<"showinfo", "saved">>
         /\ pc' = "dirty"
         /\ UNCHANGED <<nodes, selected_key, text, images, _selected_image_index>>
         /\ UNCHANGED <<chain, calls, html_path, patchVars>>

\* save_html: the field shown is saved, the edit set is applied to the
\* document, the result is written and rescanned
save_html ==
    IF html_path = ""
    THEN /\ msg' = <<"showwarning", "no_file">>
         /\ UNCHANGED <<textVars, imgVars, html_path, original_html, files,
                        selected_key, text, _selected_image_index>>
    ELSE /\ edits' = FieldSaved
         /\ original_html' = apply_text_edits(original_html, edits')
         /\ files' = [files EXCEPT ![html_path] = original_html']
         /\ msg' = <<"showinfo", "saved">>
         /\ rescan_all(original_html', edits')
         /\ _selected_image_index' = -1
         /\ pc' = "dirty"
         /\ UNCHANGED <<chain, calls, html_path, patchVars>>

\* on_image_select: the user selects row idx of the image table (-1: the
\* selection is empty)
on_image_select(idx) ==
    /\ _selected_image_index' = idx
    /\ msg' = <<>>
    /\ UNCHANGED <<textVars, imgVars, html_path, original_html, files,
                   selected_key, text>>

\* the row of the image table that carries img_id after the rescan, -1 when
\* there is none
RowOf(imgs, img_id) ==
    IF \E n \in DOMAIN imgs : imgs[n].img_id = img_id
    THEN (CHOOSE n \in DOMAIN imgs :
             /\ imgs[n].img_id = img_id
             /\ \A m \in 1..(n - 1) : imgs[m].img_id # img_id) - 1
    ELSE -1

\* the end of replace_selected_image: res is what replace_image_in_html
\* returned or raised for the entry selected, box the message of success
ReplaceDone(entry, res, box) ==
    IF res.raised
    THEN /\ msg' = <<"showerror", "replace">>
         /\ UNCHANGED <<textVars, imgVars, html_path, original_html, files,
                        selected_key, text, _selected_image_index>>
    ELSE /\ original_html' = res.html
         /\ files' = [files EXCEPT ![html_path] = original_html']
         /\ msg' = box
         /\ rescan_all(original_html', edits)
         /\ _selected_image_index' = RowOf(images', entry.img_id)
         /\ pc' = "dirty"
         /\ UNCHANGED <<chain, edits, calls, html_path, patchVars>>

\* (variant: no return after the error box of an unsupported file, the
\* replacement goes on with the empty data-URL)
replace_selected_imageNoReturn(path) ==
    IF html_path = ""
    THEN /\ msg' = <<"showwarning", "no_file">>
         /\ UNCHANGED <<textVars, imgVars, html_path, original_html, files,
                        selected_key, text, _selected_image_index>>
    ELSE IF _selected_image_index = -1
    THEN /\ msg' = <<"showwarning", "no_selection">>
         /\ UNCHANGED <<textVars, imgVars, html_path, original_html, files,
                        selected_key, text, _selected_image_index>>
    ELSE IF path.name = ""
    THEN /\ msg' = <<>>
         /\ UNCHANGED <<textVars, imgVars, html_path, original_html, files,
                        selected_key, text, _selected_image_index>>
    ELSE ReplaceDone(images[_selected_image_index + 1],
                     replace_image_in_html(original_html,
                         images[_selected_image_index + 1].locator,
                         make_data_url_from_file(path).data_url),
                     IF make_data_url_from_file(path).raised
                     THEN <<"showerror", "format">>
                     ELSE <<"showinfo", "replaced">>)

\* replace_selected_image: the image file dialog returns path
replace_selected_image(path) ==
    IF html_path = ""
    THEN /\ msg' = <<"showwarning", "no_file">>
         /\ UNCHANGED <<textVars, imgVars, html_path, original_html, files,
                        selected_key, text, _selected_image_index>>
    ELSE IF _selected_image_index = -1
    THEN /\ msg' = <<"showwarning", "no_selection">>
         /\ UNCHANGED <<textVars, imgVars, html_path, original_html, files,
                        selected_key, text, _selected_image_index>>
    ELSE IF path.name = ""
    THEN /\ msg' = <<>>
         /\ UNCHANGED <<textVars, imgVars, html_path, original_html, files,
                        selected_key, text, _selected_image_index>>
    ELSE IF make_data_url_from_file(path).raised
    THEN /\ msg' = <<"showerror", "format">>
         /\ UNCHANGED <<textVars, imgVars, html_path, original_html, files,
                        selected_key, text, _selected_image_index>>
    ELSE ReplaceDone(images[_selected_image_index + 1],
                     replace_image_in_html(original_html,
                         images[_selected_image_index + 1].locator,
                         make_data_url_from_file(path).data_url),
                     <<"showinfo", "replaced">>)

NextSession ==
    \/ \E path \in FileNames \cup {""} : open_file(path)
    \/ \E idx \in DOMAIN nodes : on_select_text(idx)
    \/ \E v \in TypedTexts : TypeText(v)
    \/ save_field
    \/ save_html
    \/ \E idx \in -1..(Len(images) - 1) : on_image_select(idx)
    \/ \E path \in ChosenFiles : replace_selected_image(path)

SpecSession == InitSession /\ [][NextSession]_vars

\* ------------------------------------------------------------------------
\* Edit sets of two edits, with addresses the document may not have
\* ------------------------------------------------------------------------

\* flat documents of plain, marker-only, marker-carrying leaves and the
\* status container
EditDocs ==
    {d \in TreeDocs :
        \A i \in DOMAIN d :
            /\ d[i].parent = 0
            /\ d[i].text # <<>>
            /\ d[i].cls \in {<<"x">>, <<"status">>}}

\* addresses offered to apply_text_edits: occurrences 0..MaxNodes+1 of
\* (p, x), the status container as a text leaf, a group no document has, a
\* key of three fields, a key of five fields, status names with and without
\* a branch, and a key of neither family
OfferedKeys ==
    {<<"TEXT", "p", "x", n>> : n \in 0..(MaxNodes + 1)}
        \cup {<<"TEXT", "p", "status", 1>>,
              <<"TEXT", "h1", "", 1>>,
              <<"TEXT", "p", "x">>,
              <<"TEXT", "p", "x", 1, 1>>,
              <<"STATUS", "Gold">>,
              <<"STATUS", "Bronze">>,
              <<"IMG", "p", "x", 1>>}

PairValues == {<<<<"c">>, <<"d">>>>, <<<<"d", " ">>, <<"c", " ", "{{", "d", "}}">>>>}

\* edit sets of two edits with distinct keys, in either dict order
EditPairs ==
    {<<<<kk[1], v[1]>>, <<kk[2], v[2]>>>> :
        kk \in {q \in OfferedKeys \X OfferedKeys : q[1] # q[2]},
        v \in PairValues}

InitEdits == \E d \in EditDocs : InitWith(d, <<>>)

NextEdits ==
    \/ Extract
    \/ \E E \in EditPairs : Patch(E)

SpecEdits == InitEdits /\ [][NextEdits]_vars

\* ------------------------------------------------------------------------
\* Properties
\* ------------------------------------------------------------------------
Delims == {"{{", "}}", "{%", "%}"}
IsLiteral(t) == t # <<>> /\ \A i \in DOMAIN t : t[i] \notin Delims

\* the (key, display) list of an extraction
KD(ns) == [i \in DOMAIN ns |-> <<ns[i].key, ns[i].display>>]

TextEntries(ns) == SelectSeq(ns, LAMBDA n : n.kind = "text")
StatusEntries(ns) == SelectSeq(ns, LAMBDA n : n.kind = "status")

\* the elements extract_text_nodes numbers for a (tag, class) pair
ExtractGroup(doc, tag_name, class_str) ==
    SelectSeq(Candidates(doc),
        LAMBDA i : doc[i].name = tag_name /\ JoinClass(doc[i].cls) = class_str)

Pairs(doc) == {<<doc[i].name, JoinClass(doc[i].cls)>> : i \in DOMAIN doc}

OneEdit == pc = "patched" /\ calls = 1 /\ Len(edits) = 1
EditKey == edits[1][1]
EditValue == edits[1][2]

\* C1: after a single TEXT edit {k: v} with norm(v) non-empty literal text,
\* re-extraction has an entry with key k whose display is norm(v)
C1_RoundTrip ==
    (OneEdit /\ EditKey[1] = "TEXT" /\ IsLiteral(norm(EditValue)))
        => \E i \in DOMAIN out_nodes :
              /\ out_nodes[i].key = EditKey
              /\ out_nodes[i].display = norm(EditValue)

\* C2: for every (tag, class) pair the list of elements apply_text_edits
\* indexes is the list extract_text_nodes numbers, in the same order, so every
\* extracted TEXT address resolves to the element it was given to
C2_SameTraversal ==
    pc # "start" =>
        /\ \A pr \in Pairs(html) :
              IndexGroup(html, pr[1], pr[2]) = ExtractGroup(html, pr[1], pr[2])
        /\ \A i \in DOMAIN nodes :
              nodes[i].kind = "text" =>
                ResolveText(html, nodes[i].key) =
                    ExtractGroup(html, nodes[i].tag_name,
                                 nodes[i].class_str)[nodes[i].occurrence]

\* C3: after a single edit {k: v}, every entry of the first extraction with a
\* key other than k is in the re-extraction with the same key and display
C3_NoShift ==
    OneEdit =>
        \A i \in DOMAIN nodes :
            nodes[i].key # EditKey =>
                \E j \in DOMAIN out_nodes :
                    /\ out_nodes[j].key = nodes[i].key
                    /\ out_nodes[j].display = nodes[i].display

\* C4: applying the same edit set a second time changes no (key, display) of
\* the extraction
C4_Converges ==
    (pc = "patched" /\ calls = 2) => KD(out_nodes) = KD(nodes)

\* C5: the empty edit set is a no-op: same keys, same order, same display
C5_EmptyEditNoop ==
    (pc = "patched" /\ calls = 1 /\ edits = <<>>) => KD(out_nodes) = KD(nodes)

C5_Witness ==
    /\ pc = "patched" /\ calls = 1 /\ edits = <<>>
    /\ Len(TextEntries(nodes)) >= 2
    /\ Len(StatusEntries(nodes)) >= 1
    /\ \E i \in DOMAIN html : has_jinja(html[i].text) /\ html[i].name = "p"

\* C6: the text entries of a (tag, class) pair carry occurrences 1..n in
\* document order, all keys of one extraction are pairwise distinct, and no
\* TEXT key equals a STATUS key
C6_OccurrenceNumbering ==
    pc # "start" =>
        /\ \A pr \in Pairs(html) :
              LET grp == SelectSeq(nodes, LAMBDA n :
                            n.kind = "text" /\ n.tag_name = pr[1] /\ n.class_str = pr[2])
                  els == ExtractGroup(html, pr[1], pr[2])
              IN /\ Len(grp) = Len(els)
                 /\ \A n \in DOMAIN grp :
                       /\ grp[n].occurrence = n
                       /\ grp[n].key = <<"TEXT", pr[1], pr[2], n>>
                       /\ grp[n].display = ExtractedText(html[els[n]].text)
        /\ \A i, j \in DOMAIN nodes : i # j => nodes[i].key # nodes[j].key
        /\ \A i, j \in DOMAIN nodes :
              (nodes[i].kind = "text" /\ nodes[j].kind = "status")
                  => /\ nodes[i].key[1] = "TEXT"
                     /\ nodes[j].key[1] = "STATUS"
                     /\ nodes[i].key # nodes[j].key

C6_Witness ==
    /\ pc = "extracted"
    /\ \E i, j \in DOMAIN nodes :
          /\ i < j
          /\ nodes[i].kind = "text" /\ nodes[j].kind = "text"
          /\ nodes[i].tag_name = nodes[j].tag_name
          /\ nodes[i].class_str = nodes[j].class_str
          /\ nodes[j].occurrence = 2
    /\ \E i \in DOMAIN nodes : nodes[i].kind = "status"

\* the positions of a text that lie inside a template marker, scanning from i
RECURSIVE MarkerCover(_, _)
MarkerCover(s, i) ==
    IF i > Len(s) THEN {}
    ELSE IF JinjaEnd(s, i) # 0
         THEN (i..JinjaEnd(s, i)) \cup MarkerCover(s, JinjaEnd(s, i) + 1)
    ELSE MarkerCover(s, i + 1)

\* the marker spans of a text, left to right (JINJA_RE.findall)
RECURSIVE MarkerSpans(_, _)
MarkerSpans(s, i) ==
    IF i > Len(s) THEN <<>>
    ELSE IF JinjaEnd(s, i) # 0
         THEN <<SubStr(s, i, JinjaEnd(s, i))>> \o MarkerSpans(s, JinjaEnd(s, i) + 1)
    ELSE MarkerSpans(s, i + 1)

\* the symbols of a text at the positions outside every marker
LiteralSyms(s) ==
    LET keep == Ascending(DOMAIN s \ MarkerCover(s, 1))
    IN [n \in DOMAIN keep |-> s[keep[n]]]

OnlyMarkersAndSpace(s) == \A i \in DOMAIN s \ MarkerCover(s, 1) : s[i] \in WS_RE

\* candidate leaves as the extractor sees them: a candidate tag outside the
\* skipped subtrees, no element child, one text run
CandidateLeaves(doc) ==
    Ascending({i \in DOMAIN doc :
        /\ doc[i].name \in CANDIDATE_TAGS
        /\ ~Decomposed(doc, i)
        /\ ~HasTagChild(doc, i)
        /\ doc[i].text # <<>>})

\* C7: a candidate leaf whose text is only markers and whitespace gives no
\* entry; one with literal text besides gives exactly one entry, whose display
\* is the text without its marker spans, whitespace-normalized
C7_TemplateBoundary ==
    pc # "start" =>
        LET leaves == CandidateLeaves(html)
            shown == SelectSeq(leaves, LAMBDA i : ~OnlyMarkersAndSpace(html[i].text))
            got == TextEntries(nodes)
        IN /\ Len(got) = Len(shown)
           /\ \A n \in DOMAIN got :
                 got[n].display = norm(LiteralSyms(html[shown[n]].text))

C7_Witness ==
    /\ pc = "extracted"
    /\ Len(html) = 1
    /\ Len(MarkerSpans(html[1].text, 1)) = 1
    /\ Len(nodes) = 1
    /\ nodes[1].display # norm(html[1].text)
    /\ Len(nodes[1].display) = 2

\* each span occurs in the text from position i on, one after the other
RECURSIVE OccurInOrder(_, _, _)
OccurInOrder(spans, s, i) ==
    IF spans = <<>> THEN TRUE
    ELSE LET at == StrFind(s, Head(spans), i)
         IN at # 0 /\ OccurInOrder(Tail(spans), s, at + Len(Head(spans)))

StartsWith(s, pre) == Len(pre) <= Len(s) /\ SubStr(s, 1, Len(pre)) = pre

\* C8: when a TEXT edit lands on an element whose raw text has markers, every
\* marker span of the old text is still in the new text, in the same order,
\* and the new text starts with norm(new value)
C8_MarkersPreserved ==
    (OneEdit /\ EditKey[1] = "TEXT") =>
        LET t == ResolveText(html, EditKey)
        IN (t # 0 /\ has_jinja(html[t].text)) =>
              /\ OccurInOrder(MarkerSpans(html[t].text, 1), out_html[t].text, 1)
              /\ StartsWith(out_html[t].text, norm(EditValue))

\* the if/elif/endif directive tokens of a text, left to right
DirectiveTokens(s) ==
    SelectSeq(MarkerSpans(s, 1),
        LAMBDA m : m[1] = "{%" /\ At(m, SkipWs(m, 2)) \in {"if", "elif", "endif"})

\* the statuses with a branch of non-empty body text in the chain the input
\* was written from, in vocabulary order
ChainStatuses ==
    SelectSeq(STATUSES, LAMBDA st :
        \E b \in DOMAIN chain : chain[b].name = st /\ norm(chain[b].body) # <<>>)

ChainBody(st) == chain[CHOOSE b \in DOMAIN chain : chain[b].name = st].body

HasContainer == \E i \in DOMAIN html : html[i].name = "p" /\ html[i].cls = <<"status">>

\* C9: one status entry STATUS|<name> per vocabulary name whose branch exists
\* in the status container with non-empty body text, display = the normalized
\* body, in vocabulary order; none without a status container
C9_StatusExtraction ==
    (pc # "start" /\ calls <= 1) =>
        LET got == StatusEntries(nodes)
        IN IF HasContainer
           THEN /\ Len(got) = Len(ChainStatuses)
                /\ \A n \in DOMAIN got :
                      /\ got[n].key = <<"STATUS", ChainStatuses[n]>>
                      /\ got[n].display = norm(ChainBody(ChainStatuses[n]))
           ELSE got = <<>>

C9_Witness ==
    /\ pc = "extracted"
    /\ HasContainer
    /\ Len(chain) = 2
    /\ chain[1].name = "Bronze" /\ chain[2].name = "Gold"
    /\ Len(StatusEntries(nodes)) = 2
    /\ StatusEntries(nodes)[1].key = <<"STATUS", "Gold">>
    /\ has_jinja(chain[2].body)

\* the container text changed only between the directive of status X and the
\* next directive
OnlyBodyChanged(old, new, X) ==
    \E a, c \in DOMAIN old :
        /\ a < c
        /\ old[a] = "%}" /\ old[c] = "{%"
        /\ \E o \in 1..a : /\ old[o] = "{%"
                           /\ FindSym(old, "%}", o) = a
                           /\ \E n \in o..a : old[n] = X
        /\ \A m \in (a + 1)..(c - 1) : old[m] # "{%"
        /\ Len(new) >= a + (Len(old) - c + 1)
        /\ SubStr(new, 1, a) = SubStr(old, 1, a)
        /\ SubStr(new, Len(new) - (Len(old) - c), Len(new)) = SubStr(old, c, Len(old))

TraversalsAgree(doc) ==
    \A pr \in Pairs(doc) :
        IndexGroup(doc, pr[1], pr[2]) = ExtractGroup(doc, pr[1], pr[2])

\* the status container of the document has an if/elif branch for the name
BranchExists(doc, st) ==
    /\ FindStatusP(doc) # 0
    /\ BranchSearch(doc[FindStatusP(doc)].text, 1, st).start # 0

\* the address resolves in the document: a TEXT address the extraction of the
\* document gives, or a STATUS name with a branch in the status container
Resolves(doc, ns, k) ==
    \/ k[1] = "TEXT" /\ k \in Keys(ns)
    \/ k[1] = "STATUS" /\ Len(k) = 2 /\ BranchExists(doc, k[2])

ResolvingEdits(doc, ns, E) == SelectSeq(E, LAMBDA e : Resolves(doc, ns, e[1]))

\* C11: the edits whose address does not resolve in the document are
\* dropped: the result is the result of the edit set without them (the
\* document itself when none resolves), so no node changes on their account
\* and every other edit of the set is applied
C11_UnresolvableDropped ==
    (pc = "patched" /\ calls = 1) =>
        out_html = apply_text_edits(html, ResolvingEdits(html, nodes, edits))

\* C11 on the documents where apply_text_edits indexes the elements
\* extract_text_nodes numbers
C11_DroppedWhereTraversalsAgree ==
    (pc = "patched" /\ calls = 1 /\ TraversalsAgree(html)) =>
        out_html = apply_text_edits(html, ResolvingEdits(html, nodes, edits))

\* C19: the extraction has no TEXT entry for the status container (p with
\* class status), and a TEXT edit leaves the container's text as it was
C19_NoTextEntryForContainer ==
    /\ pc # "start" =>
          \A i \in DOMAIN nodes :
              nodes[i].kind = "text" =>
                  ~(nodes[i].tag_name = "p" /\ nodes[i].class_str = "status")
    /\ (OneEdit /\ EditKey[1] = "TEXT" /\ FindStatusP(html) # 0) =>
          out_html[FindStatusP(html)].text = html[FindStatusP(html)].text

Reverse(E) == [n \in DOMAIN E |-> E[Len(E) + 1 - n]]

\* an edit set of two edits whose TEXT keys are addresses of the extraction
TwoEditsFromExtraction ==
    /\ pc = "patched" /\ calls = 1 /\ Len(edits) = 2
    /\ \A n \in DOMAIN edits :
          edits[n][1][1] = "TEXT" => edits[n][1] \in Keys(nodes)

\* the element extract_text_nodes gave the TEXT address k to
Addressed(doc, k) == ExtractGroup(doc, k[2], k[3])[k[4]]

\* C20: for an edit set whose TEXT keys come from the extraction, the result
\* is the same in either iteration order, and the element each TEXT key
\* addresses ends with the text its own edit gives it
C20_EditsDoNotInterfere ==
    TwoEditsFromExtraction =>
        /\ out_html = apply_text_edits(html, Reverse(edits))
        /\ \A n \in DOMAIN edits :
              edits[n][1][1] = "TEXT" =>
                  out_html[Addressed(html, edits[n][1])].text =
                      PatchedText(html[Addressed(html, edits[n][1])].text, edits[n][2])

\* C20, the order of iteration alone
C20_OrderOfIteration ==
    (pc = "patched" /\ calls = 1 /\ Len(edits) = 2) =>
        out_html = apply_text_edits(html, Reverse(edits))

\* C20 on the documents where the traversals agree and no TEXT key addresses
\* the status container
C20_WhereTraversalsAgree ==
    (/\ TwoEditsFromExtraction
     /\ TraversalsAgree(html)
     /\ \A n \in DOMAIN edits : edits[n][1] # <<"TEXT", "p", "status", 1>>) =>
        \A n \in DOMAIN edits :
            edits[n][1][1] = "TEXT" =>
                out_html[Addressed(html, edits[n][1])].text =
                    PatchedText(html[Addressed(html, edits[n][1])].text, edits[n][2])

\* ------------------------------------------------------------------------
\* Properties of the image pipeline
\* ------------------------------------------------------------------------
ExtractedLocators == {images[n].locator : n \in DOMAIN images}

\* the elements a locator kind ranks: all <img>, all elements with a style
\* attribute, all <style> blocks
Ranked(doc, kind) ==
    IF kind = "img" THEN {i \in DOMAIN doc : doc[i].name = "img"}
    ELSE IF kind = "inline_style" THEN {i \in DOMAIN doc : doc[i].style # <<>>}
    ELSE IF kind = "style_tag" THEN {i \in DOMAIN doc : doc[i].name = "style"}
    ELSE {}

\* 0-based rank of element i among the elements of its kind
RankOf(doc, kind, i) == Cardinality({j \in Ranked(doc, kind) : j < i})

\* the element of rank a
ElementAt(doc, kind, a) ==
    CHOOSE i \in Ranked(doc, kind) : RankOf(doc, kind, i) = a

\* C12: for a background locator (kind, a, b) of the extraction the result
\* is the document with the b-th url(...) occurrence of the a-th style text
\* replaced by u and nothing else changed
C12_ExactlyTheAddressedUrl ==
    (/\ pc = "replaced"
     /\ locator \in ExtractedLocators
     /\ locator.kind \in {"inline_style", "style_tag"}) =>
        LET i == ElementAt(html, locator.kind, locator.a)
            old == StyleText(html, locator.kind, i)
            sp == BgFindAll(old, 1)[locator.b + 1]
            new == SubStr(old, 1, sp.from - 1) \o new_data_url
                       \o SubStr(old, sp.to + 1, Len(old))
        IN /\ ~replaced.raised
           /\ Len(replaced.html) = Len(html)
           /\ \A j \in DOMAIN html : j # i => replaced.html[j] = html[j]
           /\ StyleText(replaced.html, locator.kind, i) = new
           /\ replaced.html[i] =
                 IF locator.kind = "inline_style"
                 THEN [html[i] EXCEPT !.style = <<new>>]
                 ELSE [html[i] EXCEPT !.text = new]

KindOrder(kind) ==
    IF kind = "img" THEN 1 ELSE IF kind = "inline_style" THEN 2 ELSE 3

\* locator l comes before locator m: by pass, then element, then url
LocatorBefore(l, m) ==
    \/ KindOrder(l.kind) < KindOrder(m.kind)
    \/ l.kind = m.kind /\ l.a < m.a
    \/ l.kind = m.kind /\ l.a = m.a /\ l.b < m.b

\* the locators the claim expects: (img, rank, 0) for every <img> with a
\* non-blank src, (kind, rank of the element, rank of the url) for every
\* non-blank url of every style attribute and <style> block
BgLocatorsOf(doc, kd, i) ==
    LET urls == BgUrls(StyleText(doc, kd, i))
    IN {ImageLocator(kd, RankOf(doc, kd, i), m - 1) :
            m \in {q \in DOMAIN urls : Strip(urls[q]) # <<>>}}

ExpectedOf(doc) ==
    {ImageLocator("img", RankOf(doc, "img", i), 0) :
        i \in {j \in Ranked(doc, "img") : Strip(AttrOr(doc[j].src)) # <<>>}}
    \cup UNION {BgLocatorsOf(doc, "inline_style", i) : i \in Ranked(doc, "inline_style")}
    \cup UNION {BgLocatorsOf(doc, "style_tag", i) : i \in Ranked(doc, "style_tag")}

\* C13: the entries are, in order, the <img> entries, the inline style
\* entries and the <style> block entries with the ranks as locators, one per
\* non-blank source; and replacing through an img locator of the extraction
\* changes that element's src only, so that the result extracts to the same
\* locators
C13_LocatorCorrectness ==
    /\ pc # "start" =>
          LET expected == ExpectedOf(html)
          IN /\ ExtractedLocators = expected
             /\ Len(images) = Cardinality(expected)
             /\ \A n \in DOMAIN images :
                   n > 1 => LocatorBefore(images[n - 1].locator, images[n].locator)
    /\ (pc = "replaced" /\ locator \in ExtractedLocators /\ locator.kind = "img") =>
          LET i == ElementAt(html, "img", locator.a)
          IN /\ ~replaced.raised
             /\ replaced.html = [html EXCEPT ![i].src = <<new_data_url>>]
             /\ Len(out_images) = Len(images)
             /\ \A n \in DOMAIN images : out_images[n].locator = images[n].locator

C13_Witness ==
    /\ pc = "replaced"
    /\ locator = ImageLocator("img", 1, 0)
    /\ Len(images) = 3
    /\ images[1].locator = ImageLocator("img", 0, 0)
    /\ images[2].locator = ImageLocator("img", 1, 0)
    /\ images[3].locator = ImageLocator("inline_style", 0, 0)
    /\ replaced.html # html

\* C14: the k-th entry of an extraction has the id IMG followed by the three
\* digits of k
C14_SequentialIds ==
    pc # "start" =>
        \A k \in DOMAIN images :
            images[k].img_id = <<"IMG", (k \div 100) % 10, (k \div 10) % 10, k % 10>>

C14_Witness ==
    /\ pc = "scanned"
    /\ Len(images) >= 10
    /\ \E i \in DOMAIN html : html[i].name = "img" /\ Strip(AttrOr(html[i].src)) = <<>>
    /\ images[1].locator = ImageLocator("style_tag", 0, 1)

\* the locator addresses nothing in the document
OutOfRange(doc, l) ==
    \/ l.kind \notin {"img", "inline_style", "style_tag"}
    \/ l.a < 0
    \/ l.a >= Cardinality(Ranked(doc, l.kind))
    \/ /\ l.kind \in {"inline_style", "style_tag"}
       /\ \/ l.b < 0
          \/ l.b >= Len(BgUrls(StyleText(doc, l.kind, ElementAt(doc, l.kind, l.a))))

\* C15: a locator of unknown kind or with an index outside the ranges of the
\* document makes replace_image_in_html raise, and no document is returned
C15_OutOfRangeRaises ==
    (pc = "replaced" /\ OutOfRange(html, locator)) => replaced = ValueError

C15_Witness ==
    /\ pc = "replaced"
    /\ locator.kind = "inline_style"
    /\ locator.a = 0
    /\ locator.b = 2
    /\ Len(BgUrls(StyleText(html, "inline_style", ElementAt(html, "inline_style", 0)))) = 2
    /\ replaced.raised

\* ------------------------------------------------------------------------
\* Properties of the editor session
\* ------------------------------------------------------------------------

\* C16: a step of replace_selected_image that ends in an error box (a file
\* that is not PNG/JPEG, or an addressing error) leaves original_html, the
\* files on disk, the edit set, the node list and the image list as they were
C16_ReplaceAllOrNothing ==
    [][(msg' # <<>> /\ msg'[1] = "showerror") =>
          /\ original_html' = original_html
          /\ files' = files
          /\ edits' = edits
          /\ nodes' = nodes
          /\ images' = images]_vars

C16_Witness ==
    /\ msg = <<"showerror", "format">>
    /\ html_path = "B"
    /\ _selected_image_index = 0
    /\ edits # <<>>
    /\ files["B"] # original_html \/ pc = "dirty"

\* C17: the node list and the image list of the editor are the extraction
\* of the current original_html, and the selected image row is a row of
\* that extraction, so the locator replace_selected_image passes on is one
\* of extract_images(original_html)
C17_LocatorsFresh ==
    /\ nodes = extract_text_nodes(original_html)
    /\ images = extract_images(original_html)
    /\ _selected_image_index # -1 =>
          /\ _selected_image_index \in 0..(Len(images) - 1)
          /\ images[_selected_image_index + 1].locator \in
                {e.locator : e \in Range(extract_images(original_html))}

C17_Witness ==
    /\ msg = <<"showinfo", "replaced">>
    /\ _selected_image_index = 1
    /\ Len(images) = 2
    /\ edits # <<>>
    /\ IsDataUrl(images[2].hint) \/ images[2].hint = <<"(data-url)">>

\* C18: a save_html step taken while nothing was typed, saved or replaced
\* since the last open_file writes a document with the (key, display) list
\* of the document as opened
C18_SaveWithoutEditing ==
    [][(pc = "opened" /\ msg' = <<"showinfo", "saved">>) =>
          KD(nodes') = KD(nodes)]_vars

\* C18 in a session whose edit set is empty at the save
C18_SaveWithoutEditingFirstDocument ==
    [][(pc = "opened" /\ edits = <<>> /\ msg' = <<"showinfo", "saved">>) =>
          KD(nodes') = KD(nodes)]_vars

====
